---------------------------- MODULE Spec2Model ----------------------------
(***************************************************************************)
(* A model of the chart generation service of src/app.py: the HTTP         *)
(* handlers (home, generate_chart, download_chart, cleanup), the           *)
(* process-wide GENERATED_FILES registry and the data-to-chart pipeline of  *)
(* generate_chart (form parsing, table loading, slide padding, value       *)
(* coercion, chart insertion, identifier generation).                      *)
(*                                                                         *)
(* Text that the code takes apart (file names, layout names, cell text,    *)
(* chart types, identifiers, URLs) is a sequence of one-character strings, *)
(* so that endswith, strip, lower, `in`, formatting and routing are        *)
(* computed rather than assumed.                                           *)
(***************************************************************************)
EXTENDS Integers, Sequences, FiniteSets, TLC

VARIABLES
    clock,            \* the wall clock read by datetime.now(), in ticks
    GENERATED_FILES,  \* the registry: a dict, kept in insertion order
    nreq,             \* number of /generate-chart requests received so far
    th                \* per worker thread: position in its handler and its locals

vars == <<clock, GENERATED_FILES, nreq, th>>

-----------------------------------------------------------------------------
(* Bounds of the model *)

\* worker threads serving requests concurrently
NThreads == 2
\* at most this many /generate-chart requests are started in one behaviour
MaxRequests == 2
\* largest slidePosition a request carries
MaxPos == 3
\* longest text of a value cell
MaxLen == 3
\* the clock is followed for this many ticks past time 0 and past the age limit
ExtraTicks == 1
\* clock ticks per second: datetime.now() is finer than the %S of strftime
TicksPerSecond == 2

(* Constants of the program *)

\* "if age > 3600" (seconds)
MaxAgeSeconds == 3600
\* "layout_idx = 5"
DefaultLayoutIdx == 5
\* "int(request.form.get('slidePosition', 1))"
DefaultSlidePosition == 1

Threads == 1..NThreads

-----------------------------------------------------------------------------
(* Text *)

RECURSIVE StartsWith(_, _)
StartsWith(s, pre) ==
    IF pre = <<>> THEN TRUE
    ELSE IF s = <<>> THEN FALSE
    ELSE Head(s) = Head(pre) /\ StartsWith(Tail(s), Tail(pre))

\* str.endswith
EndsWith(s, suf) ==
    /\ Len(s) >= Len(suf)
    /\ SubSeq(s, Len(s) - Len(suf) + 1, Len(s)) = suf

\* `sub in s` for strings
Contains(s, sub) ==
    \E i \in 1..(Len(s) - Len(sub) + 1) : SubSeq(s, i, i + Len(sub) - 1) = sub

\* `c in s` for one character
HasChar(s, c) == \E i \in 1..Len(s) : s[i] = c

UpperLetters == <<"A", "B", "C", "K", "L", "N", "S", "T">>
LowerLetters == <<"a", "b", "c", "k", "l", "n", "s", "t">>

LowerChar(c) ==
    IF \E i \in 1..Len(UpperLetters) : UpperLetters[i] = c
    THEN LowerLetters[CHOOSE i \in 1..Len(UpperLetters) : UpperLetters[i] = c]
    ELSE c

\* str.lower
Lower(s) == [i \in 1..Len(s) |-> LowerChar(s[i])]

\* str.strip(chars): leading and trailing characters of the set are dropped
RECURSIVE LStrip(_, _)
LStrip(s, c) ==
    IF s # <<>> /\ Head(s) = c THEN LStrip(Tail(s), c) ELSE s

RECURSIVE RStrip(_, _)
RStrip(s, c) ==
    IF s # <<>> /\ s[Len(s)] = c THEN RStrip(SubSeq(s, 1, Len(s) - 1), c) ELSE s

Strip(s, c) == RStrip(LStrip(s, c), c)

Digits == <<"0", "1", "2", "3", "4", "5", "6", "7", "8", "9">>

IsDigit(c) == \E d \in 1..10 : Digits[d] = c

DigitValue(c) == (CHOOSE d \in 1..10 : Digits[d] = c) - 1

RECURSIVE DigitsToInt(_)
DigitsToInt(s) ==
    IF s = <<>> THEN 0
    ELSE 10 * DigitsToInt(SubSeq(s, 1, Len(s) - 1)) + DigitValue(s[Len(s)])

-----------------------------------------------------------------------------
(* Numbers: a float is m / 10^e, or the IEEE not-a-number *)

Float(m, e) == [tag |-> "float", m |-> m, e |-> e]
NaN == [tag |-> "nan", m |-> 0, e |-> 0]
Zero == Float(0, 0)

\* the failure of a conversion (ValueError, TypeError)
Raises == [tag |-> "raises", m |-> 0, e |-> 0]

\* float(text) for text over CellAlphabet: digits with at most one decimal
\* point and at least one digit; anything else raises ValueError
PyFloatOfText(s) ==
    LET dots == {i \in 1..Len(s) : s[i] = "."}
        wellFormed ==
            /\ \A i \in 1..Len(s) : IsDigit(s[i]) \/ s[i] = "."
            /\ Cardinality(dots) <= 1
            /\ \E i \in 1..Len(s) : IsDigit(s[i])
    IN  IF ~wellFormed THEN Raises
        ELSE IF dots = {} THEN Float(DigitsToInt(s), 0)
        ELSE LET d == CHOOSE i \in dots : TRUE
                 int == SubSeq(s, 1, d - 1)
                 frac == SubSeq(s, d + 1, Len(s))
             IN  Float(DigitsToInt(int \o frac), Len(frac))

(* A cell of the loaded table: text, a number, the missing value (NaN) that  *)
(* pandas gives an empty cell, or another object (a timestamp of an Excel    *)
(* date cell).                                                               *)
TextCell(s) == [kind |-> "str", text |-> s, num |-> Zero]
NumCell(f) == [kind |-> "num", text |-> <<>>, num |-> f]
NullCell == [kind |-> "num", text |-> <<>>, num |-> NaN]
OtherCell == [kind |-> "other", text |-> <<>>, num |-> Zero]

\* float(val) for a cell
PyFloat(val) ==
    CASE val.kind = "str" -> PyFloatOfText(val.text)
      [] val.kind = "num" -> val.num
      [] OTHER -> Raises

\* one iteration of "for val in df.iloc[:, 1]"
CoerceValue(val) ==
    IF val.kind = "str" /\ HasChar(val.text, "%")
    THEN LET f == PyFloatOfText(Strip(val.text, "%"))
         IN  IF f = Raises THEN Zero ELSE f
    ELSE LET f == PyFloat(val)
         IN  IF f = Raises THEN Zero ELSE f

\* values = [...] over the whole second column
ExtractValues(col1) == [i \in 1..Len(col1) |-> CoerceValue(col1[i])]

-----------------------------------------------------------------------------
(* int(text) and its inverse *)

\* int(text): an optional minus sign and digits; anything else raises ValueError
PyIntParses(s) ==
    LET body == IF s # <<>> /\ Head(s) = "-" THEN Tail(s) ELSE s
    IN  body # <<>> /\ \A i \in 1..Len(body) : IsDigit(body[i])

PyInt(s) ==
    IF s # <<>> /\ Head(s) = "-" THEN 0 - DigitsToInt(Tail(s)) ELSE DigitsToInt(s)

RECURSIVE NatText(_)
NatText(n) ==
    IF n < 10 THEN <<Digits[n + 1]>>
    ELSE NatText(n \div 10) \o <<Digits[(n % 10) + 1]>>

IntText(n) == IF n < 0 THEN <<"-">> \o NatText(0 - n) ELSE NatText(n)

-----------------------------------------------------------------------------
(* The chart type map *)

T_pie == <<"p", "i", "e">>
T_bar == <<"b", "a", "r">>
T_line == <<"l", "i", "n", "e">>
T_scatter == <<"s", "c", "a", "t", "t", "e", "r">>
T_area == <<"a", "r", "e", "a">>

\* the map with 'bar' given the horizontal bar category
ChartTypeMapGet_BarClustered(chart_type) ==
    CASE chart_type = T_pie -> "PIE"
      [] chart_type = T_bar -> "BAR_CLUSTERED"
      [] chart_type = T_line -> "LINE"
      [] chart_type = T_scatter -> "XY_SCATTER"
      [] chart_type = T_area -> "AREA"
      [] OTHER -> "COLUMN_CLUSTERED"

\* CHART_TYPE_MAP.get(chart_type, XL_CHART_TYPE.COLUMN_CLUSTERED)
ChartTypeMapGet(chart_type) ==
    CASE chart_type = T_pie -> "PIE"
      [] chart_type = T_bar -> "COLUMN_CLUSTERED"
      [] chart_type = T_line -> "LINE"
      [] chart_type = T_scatter -> "XY_SCATTER"
      [] chart_type = T_area -> "AREA"
      [] OTHER -> "COLUMN_CLUSTERED"

-----------------------------------------------------------------------------
(* Uploaded files *)

Ext_csv == <<".", "c", "s", "v">>
Ext_xlsx == <<".", "x", "l", "s", "x">>
Ext_xls == <<".", "x", "l", "s">>
Ext_txt == <<".", "t", "x", "t">>

Table(ncols, col0, col1) == [ncols |-> ncols, col0 |-> col0, col1 |-> col1]
NoTable == Table(0, <<>>, <<>>)

\* an entry of request.files: present or not, its filename, and what the
\* loader makes of its bytes (readable: the parse succeeds, giving table)
DataFile(name, readable, table) ==
    [present |-> TRUE, filename |-> name, readable |-> readable, table |-> table]
NoDataFile ==
    [present |-> FALSE, filename |-> <<>>, readable |-> FALSE, table |-> NoTable]

\* layout names
L_TitleSlide == <<"T", "i", "t", "l", "e", " ", "S", "l", "i", "d", "e">>
L_Content == <<"C", "o", "n", "t", "e", "n", "t">>
L_Section == <<"S", "e", "c", "t", "i", "o", "n">>
L_BLANK == <<"B", "L", "A", "N", "K">>
L_Unnamed == <<>>

\* a slide: origin is its place in the template (0: appended by the padding
\* loop), layout the index of the layout it was appended with (-1: n/a)
Slide(origin, layout) == [origin |-> origin, layout |-> layout, charts |-> <<>>]

TemplateSlides(n) == [i \in 1..n |-> Slide(i, -1)]

\* an entry of request.files for templateFile: valid says whether
\* Presentation(path) can open it
TemplateFile(name, valid, nslides, layouts) ==
    [present |-> TRUE, filename |-> name, valid |-> valid,
     slides |-> TemplateSlides(nslides), layouts |-> layouts]
NoTemplateFile ==
    [present |-> FALSE, filename |-> <<>>, valid |-> FALSE,
     slides |-> <<>>, layouts |-> <<>>]

\* the layouts of the document Presentation() starts from: eleven layouts,
\* the first named "Title Slide" (the rest are not looked at by the scan)
DefaultLayouts ==
    <<L_TitleSlide>> \o [i \in 1..10 |-> L_Content]

-----------------------------------------------------------------------------
(* Presentation Composer *)

\* "if layout.name and ('blank' in layout.name.lower() or 'title' in ...)"
LayoutMatches(name) ==
    /\ name # <<>>
    /\ \/ Contains(Lower(name), <<"b", "l", "a", "n", "k">>)
       \/ Contains(Lower(name), <<"t", "i", "t", "l", "e">>)

\* the layout scan of one loop iteration: the 0-based index it ends with
SelectLayout(layouts) ==
    IF \E i \in 1..Len(layouts) : LayoutMatches(layouts[i])
    THEN (CHOOSE i \in 1..Len(layouts) :
            /\ LayoutMatches(layouts[i])
            /\ \A j \in 1..(i - 1) : ~LayoutMatches(layouts[j])) - 1
    ELSE DefaultLayoutIdx

\* the loop with "<=" for "<": one slide too many
RECURSIVE PadSlides_OneMore(_, _, _)
PadSlides_OneMore(slides, layouts, slide_position) ==
    IF ~(Len(slides) <= slide_position)
    THEN [ok |-> TRUE, slides |-> slides]
    ELSE LET layout_idx == SelectLayout(layouts)
         IN  IF layout_idx >= Len(layouts)
             THEN [ok |-> FALSE, slides |-> slides]
             ELSE PadSlides_OneMore(Append(slides, Slide(0, layout_idx)),
                                    layouts, slide_position)

\* "while len(prs.slides) < slide_position": the slides when the loop ends,
\* and whether it ended by prs.slide_layouts[layout_idx] raising IndexError
RECURSIVE PadSlides(_, _, _)
PadSlides(slides, layouts, slide_position) ==
    IF ~(Len(slides) < slide_position)
    THEN [ok |-> TRUE, slides |-> slides]
    ELSE LET layout_idx == SelectLayout(layouts)
         IN  IF layout_idx >= Len(layouts)
             THEN [ok |-> FALSE, slides |-> slides]
             ELSE PadSlides(Append(slides, Slide(0, layout_idx)),
                            layouts, slide_position)

\* prs.slides[slide_idx] is an index into a Python list: a negative index
\* counts from the end; TRUE when it raises IndexError
SlideIndexRaises(slides, slide_idx) ==
    slide_idx >= Len(slides) \/ slide_idx < 0 - Len(slides)

\* the 1-based place of prs.slides[slide_idx]
SlideAt(slides, slide_idx) ==
    IF slide_idx >= 0 THEN slide_idx + 1 ELSE Len(slides) + slide_idx + 1

\* slide.shapes.add_chart(...).chart with the legend and the pie data labels
MakeChart(chart_type, categories, values) ==
    [chart_type |-> ChartTypeMapGet(chart_type),
     categories |-> categories,
     values |-> values,
     has_legend |-> TRUE,
     legend_position |-> "RIGHT",
     has_data_labels |-> (chart_type = T_pie),
     number_format |-> IF chart_type = T_pie THEN "0.0\"%\"" ELSE "General"]

AddChart(slides, at, chart) ==
    [slides EXCEPT ![at].charts = Append(@, chart)]

-----------------------------------------------------------------------------
(* A /generate-chart request and what lines 40-139 make of it *)

\* a field of request.form
Field(v) == [present |-> TRUE, value |-> v]
NoField == [present |-> FALSE, value |-> <<>>]

\* request.form.get(name, default)
FormGet(field, default) == IF field.present THEN field.value ELSE default

Request(dataFile, templateFile, chartType, slidePosition) ==
    [dataFile |-> dataFile, templateFile |-> templateFile,
     chartType |-> chartType, slidePosition |-> slidePosition]

NoRequest == Request(NoDataFile, NoTemplateFile, NoField, NoField)

\* where the handler stands when it returns or raises: status 200 means the
\* document was saved to the buffer; slides is prs.slides at that point
Composed(status, error, stage, chart_type, slide_position, slides) ==
    [status |-> status, error |-> error, stage |-> stage,
     chart_type |-> chart_type, slide_position |-> slide_position,
     slides |-> slides]

\* "if 'templateFile' in request.files and request.files['templateFile'].filename"
TemplateGiven(req) ==
    req.templateFile.present /\ req.templateFile.filename # <<>>

\* lines 40-139 of generate_chart. xyAccepted: whether the chart library
\* builds an XY chart from category chart data, or raises.
Compose(req, xyAccepted) ==
    IF ~req.dataFile.present
    THEN Composed(400, "No data file provided", "files", <<>>, 0, <<>>)
    ELSE
    LET chart_type == FormGet(req.chartType, T_bar)
        posText == FormGet(req.slidePosition, IntText(DefaultSlidePosition))
    IN
    IF ~PyIntParses(posText)
    THEN Composed(500, "ValueError", "form", chart_type, 0, <<>>)
    ELSE
    LET slide_position == PyInt(posText)
        name == req.dataFile.filename
        df == req.dataFile.table
    IN
    IF ~(EndsWith(name, Ext_csv) \/ EndsWith(name, Ext_xlsx) \/ EndsWith(name, Ext_xls))
    THEN Composed(400, "Unsupported file format", "load", chart_type, slide_position, <<>>)
    ELSE IF ~req.dataFile.readable
    THEN Composed(500, "ParserError", "load", chart_type, slide_position, <<>>)
    ELSE IF TemplateGiven(req) /\ ~req.templateFile.valid
    THEN Composed(500, "PackageNotFoundError", "template", chart_type, slide_position, <<>>)
    ELSE
    LET base == IF TemplateGiven(req) THEN req.templateFile.slides ELSE <<>>
        layouts == IF TemplateGiven(req) THEN req.templateFile.layouts ELSE DefaultLayouts
        padded == PadSlides(base, layouts, slide_position)
        slide_idx == slide_position - 1
    IN
    IF ~padded.ok
    THEN Composed(500, "IndexError", "pad", chart_type, slide_position, padded.slides)
    ELSE IF SlideIndexRaises(padded.slides, slide_idx)
    THEN Composed(500, "IndexError", "index", chart_type, slide_position, padded.slides)
    ELSE IF df.ncols < 2
    THEN Composed(400, "Data must have at least two columns (categories and values)",
                  "columns", chart_type, slide_position, padded.slides)
    ELSE
    LET chart == MakeChart(chart_type, df.col0, ExtractValues(df.col1))
    IN
    IF chart.chart_type = "XY_SCATTER" /\ ~xyAccepted
    THEN Composed(500, "AttributeError", "chart", chart_type, slide_position, padded.slides)
    ELSE Composed(200, "", "saved", chart_type, slide_position,
                  AddChart(padded.slides, SlideAt(padded.slides, slide_idx), chart))

-----------------------------------------------------------------------------
(* Clock, identifiers and URLs *)

\* "age > 3600", in ticks
MaxAgeTicks == MaxAgeSeconds * TicksPerSecond

MaxClock == MaxAgeTicks + ExtraTicks

\* the readings of the clock the model follows
ClockValues == (0..ExtraTicks) \cup (MaxAgeTicks..MaxClock)

\* width of the rendered timestamp (%Y%m%d%H%M%S is fixed-width as well)
StampWidth == Len(NatText(MaxClock \div TicksPerSecond))

RECURSIVE ZeroPad(_, _)
ZeroPad(s, width) == IF Len(s) >= width THEN s ELSE ZeroPad(<<"0">> \o s, width)

\* datetime.now().strftime('%Y%m%d%H%M%S'): whole seconds, fixed width
StrfTime(now) == ZeroPad(NatText(now \div TicksPerSecond), StampWidth)

\* f"{...}_{chart_type}"
FileId(now, chart_type) == StrfTime(now) \o <<"_">> \o chart_type

\* f"chart_{file_id}.pptx"
Filename(file_id) ==
    <<"c", "h", "a", "r", "t", "_">> \o file_id \o <<".", "p", "p", "t", "x">>

UrlPrefix ==
    <<"/", "d", "o", "w", "n", "l", "o", "a", "d", "-", "c", "h", "a", "r", "t", "/">>

\* f"/download-chart/{file_id}"
DownloadUrl(file_id) == UrlPrefix \o file_id

PptxContentType ==
    "application/vnd.openxmlformats-officedocument.presentationml.presentation"

\* the path of a requested URL: what precedes the query ("?") or fragment ("#")
RECURSIVE UrlPath(_)
UrlPath(url) ==
    IF url = <<>> \/ Head(url) = "?" \/ Head(url) = "#" THEN <<>>
    ELSE <<Head(url)>> \o UrlPath(Tail(url))

\* @app.route('/download-chart/<file_id>'): the string converter takes one
\* non-empty path segment, with no slash in it
Route(url) ==
    LET path == UrlPath(url)
        rest == IF StartsWith(path, UrlPrefix)
                THEN SubSeq(path, Len(UrlPrefix) + 1, Len(path)) ELSE <<>>
    IN  IF StartsWith(path, UrlPrefix) /\ rest # <<>> /\ ~HasChar(rest, "/")
        THEN [matched |-> TRUE, file_id |-> rest]
        ELSE [matched |-> FALSE, file_id |-> <<>>]

-----------------------------------------------------------------------------
(* The registry: GENERATED_FILES, a dict in insertion order *)

Buffer(obj, data) == [obj |-> obj, data |-> data]
NoBuffer == Buffer(0, <<>>)

Entry(file_id, buffer, created) ==
    [id |-> file_id, buffer |-> buffer, filename |-> Filename(file_id),
     created |-> created, content_type |-> PptxContentType]
NoEntry ==
    [id |-> <<>>, buffer |-> NoBuffer, filename |-> <<>>,
     created |-> 0, content_type |-> ""]

\* list(d.keys())
Keys(d) == [i \in 1..Len(d) |-> d[i].id]

\* key in d
HasKey(d, k) == \E i \in 1..Len(d) : d[i].id = k

IndexOf(d, k) == CHOOSE i \in 1..Len(d) : d[i].id = k

\* d[k], for a key of d
Lookup(d, k) == d[IndexOf(d, k)]

\* d[k] = entry: a present key keeps its place, a new one goes last
Put(d, entry) ==
    IF HasKey(d, entry.id)
    THEN [d EXCEPT ![IndexOf(d, entry.id)] = entry]
    ELSE Append(d, entry)

\* del d[k], for a key of d
Delete(d, k) ==
    LET at == IndexOf(d, k)
    IN  SubSeq(d, 1, at - 1) \o SubSeq(d, at + 1, Len(d))

\* the age test with the limit itself counted as too old
TooOld_AtLimit(now, created) == now - created >= MaxAgeTicks

\* (now - file_data['created']).total_seconds() > 3600
TooOld(now, created) == now - created > MaxAgeTicks

-----------------------------------------------------------------------------
(* Requests the model sends *)

N_csv == <<"d">> \o Ext_csv
N_xlsx == <<"d">> \o Ext_xlsx
N_txt == <<"d">> \o Ext_txt
N_pptx == <<"t", ".", "p", "p", "t", "x">>

T_foo == <<"f", "o", "o">>
T_slash == <<"a", "/", "b">>

\* two columns: a percent text and a number
SampleTable ==
    Table(2, << <<"x">>, <<"y">> >>,
          <<TextCell(<<"4", "5", "%">>), NumCell(Float(35, 1))>>)
\* one column only
OneColumnTable == Table(1, << <<"x">>, <<"y">> >>, <<>>)

GoodCsv == DataFile(N_csv, TRUE, SampleTable)

DataFiles ==
    {NoDataFile, GoodCsv,
     DataFile(N_csv, TRUE, OneColumnTable),
     DataFile(N_xlsx, TRUE, SampleTable),
     DataFile(N_txt, TRUE, SampleTable),
     DataFile(N_csv, FALSE, NoTable)}

\* a file that is no presentation
CorruptTemplate == TemplateFile(N_pptx, FALSE, 0, <<>>)
\* two slides; the second layout matches the scan
DeckBlank == TemplateFile(N_pptx, TRUE, 2, <<L_Content, L_BLANK>>)
\* one slide; no layout matches and there is no layout 5
DeckFew == TemplateFile(N_pptx, TRUE, 1, <<L_Content, L_Section>>)
\* one slide; no layout matches (one has no name) and layout 5 exists
DeckSix ==
    TemplateFile(N_pptx, TRUE, 1,
                 <<L_Content, L_Unnamed, L_Section, L_Content, L_Section, L_Content>>)

TemplateFiles ==
    {NoTemplateFile, TemplateFile(<<>>, FALSE, 0, <<>>),
     CorruptTemplate, DeckBlank, DeckFew, DeckSix}

ChartTypes == {T_pie, T_bar, T_line, T_scatter, T_area, T_foo, T_slash}

ChartTypeFields == {NoField} \cup {Field(t) : t \in ChartTypes}

SlidePositionFields ==
    {NoField, Field(<<"a">>)} \cup {Field(IntText(n)) : n \in (-1)..MaxPos}

\* every combination of the above
ComposeRequests ==
    {Request(d, t, c, s) :
        d \in DataFiles, t \in TemplateFiles,
        c \in ChartTypeFields, s \in SlidePositionFields}

CellAlphabet == {"4", "5", ".", "%", "a"}

RECURSIVE TextsOfLen(_)
TextsOfLen(n) ==
    IF n = 0 THEN {<<>>}
    ELSE {<<c>> \o t : c \in CellAlphabet, t \in TextsOfLen(n - 1)}

CellTexts == UNION {TextsOfLen(n) : n \in 1..MaxLen}

Cells ==
    {TextCell(t) : t \in CellTexts}
        \cup {NumCell(Float(35, 1)), NumCell(Float(45, 0)), NullCell, OtherCell}

\* a one-row table for every value cell
CoerceRequests ==
    {Request(DataFile(N_csv, TRUE, Table(2, << <<"x">> >>, <<c>>)),
             NoTemplateFile, NoField, NoField) : c \in Cells}

\* the requests sent to the running service: one for every way the handler
\* ends, and the chart types whose identifiers differ
ServiceRequests ==
    {Request(NoDataFile, NoTemplateFile, NoField, NoField),
     Request(DataFile(N_txt, TRUE, SampleTable), NoTemplateFile, NoField, NoField),
     Request(DataFile(N_csv, FALSE, NoTable), NoTemplateFile, NoField, NoField),
     Request(DataFile(N_csv, TRUE, OneColumnTable), NoTemplateFile, NoField, NoField),
     Request(GoodCsv, NoTemplateFile, NoField, Field(<<"a">>)),
     Request(GoodCsv, NoTemplateFile, NoField, Field(IntText(0))),
     Request(GoodCsv, CorruptTemplate, Field(T_pie), NoField),
     Request(GoodCsv, DeckFew, NoField, Field(IntText(2))),
     Request(GoodCsv, DeckBlank, NoField, Field(IntText(0))),
     Request(GoodCsv, NoTemplateFile, NoField, NoField),
     Request(GoodCsv, NoTemplateFile, Field(T_pie), NoField),
     Request(GoodCsv, NoTemplateFile, Field(T_slash), NoField)}

\* the chart types of a set of requests
ChartTypesOf(requests) == {FormGet(r.chartType, T_bar) : r \in requests}

\* the URLs asked of /download-chart: every identifier the service can have
\* produced for the requests, and one it cannot
UrlsFor(requests) ==
    {DownloadUrl(FileId(t, c)) : t \in ClockValues, c \in ChartTypesOf(requests)}
        \cup {DownloadUrl(<<"n", "o", "n", "e">>)}

ServiceUrls == UrlsFor(ServiceRequests)

\* the requests sent while others are being served
ConcurrentRequests ==
    {Request(NoDataFile, NoTemplateFile, NoField, NoField),
     Request(GoodCsv, NoTemplateFile, NoField, NoField),
     Request(GoodCsv, NoTemplateFile, Field(T_pie), NoField)}

ConcurrentUrls == UrlsFor(ConcurrentRequests)

-----------------------------------------------------------------------------
(* Worker threads *)

NoComposed == Composed(0, "", "", <<>>, 0, <<>>)

Resp(status, kind, error) ==
    [status |-> status, kind |-> kind, error |-> error,
     downloadUrl |-> <<>>, chartType |-> <<>>,
     mimetype |-> "", download_name |-> <<>>, body |-> NoBuffer,
     removed |-> 0, remaining |-> 0]
NoResp == Resp(0, "", "")

\* an unhandled exception leaves the handler: the framework answers 500
Fault(error) == Resp(500, "fault", error)

IdleThread ==
    [pc |-> "idle", op |-> "", req |-> NoRequest, url |-> <<>>,
     comp |-> NoComposed, buffer |-> NoBuffer, file_id |-> <<>>,
     now |-> 0, keys |-> <<>>, i |-> 0, removed |-> 0,
     file_data |-> NoEntry, before |-> <<>>, resp |-> NoResp]

\* a thread that has just received the /generate-chart request req
Receiving(req, obj, before) ==
    [IdleThread EXCEPT !.pc = "gen_compose", !.op = "generate", !.req = req,
                       !.buffer = Buffer(obj, <<>>), !.before = before]

Done(t, resp) == [t EXCEPT !.pc = "done", !.resp = resp]

-----------------------------------------------------------------------------
(* GET / *)

\* the status document of lines 33-36
Online == Resp(200, "json", "")

\* home(): answers without looking at the registry
Home(p) ==
    /\ th[p].pc = "idle"
    /\ th' = [th EXCEPT ![p] = Done([IdleThread EXCEPT !.op = "home"], Online)]
    /\ UNCHANGED <<clock, GENERATED_FILES, nreq>>

-----------------------------------------------------------------------------
(* POST /generate-chart *)

\* the request arrives at an idle worker
GenBegin(p, req) ==
    /\ th[p].pc = "idle"
    /\ nreq < MaxRequests
    /\ nreq' = nreq + 1
    /\ th' = [th EXCEPT ![p] = Receiving(req, nreq + 1, GENERATED_FILES)]
    /\ UNCHANGED <<clock, GENERATED_FILES>>

\* the returns above the registry, and the except clause
ErrorResponse(c) == Resp(c.status, "json", c.error)

\* lines 40-139: everything up to prs.save(pptx_buffer), and the early
\* returns and the except clause on the way
GenCompose(p) ==
    /\ th[p].pc = "gen_compose"
    /\ \E xyAccepted \in BOOLEAN :
         LET c == Compose(th[p].req, xyAccepted)
         IN  th' = [th EXCEPT ![p] =
                      IF c.status = 200
                      THEN [@ EXCEPT !.pc = "gen_id", !.comp = c,
                                     !.buffer = Buffer(@.obj, c.slides)]
                      ELSE Done([@ EXCEPT !.comp = c], ErrorResponse(c))]
    /\ UNCHANGED <<clock, GENERATED_FILES, nreq>>

\* line 142: file_id, from a first reading of the clock
GenId(p) ==
    /\ th[p].pc = "gen_id"
    /\ th' = [th EXCEPT ![p] =
                [@ EXCEPT !.pc = "gen_store", !.now = clock,
                          !.file_id = FileId(clock, th[p].comp.chart_type)]]
    /\ UNCHANGED <<clock, GENERATED_FILES, nreq>>

\* the 200 response with the display filename in the URL instead of the key
Generated_ByFilename(file_id, chart_type) ==
    [Resp(200, "json", "") EXCEPT !.downloadUrl = DownloadUrl(Filename(file_id)),
                                  !.chartType = chart_type]

\* the 200 response of lines 155-163
Generated(file_id, chart_type) ==
    [Resp(200, "json", "") EXCEPT !.downloadUrl = DownloadUrl(file_id),
                                  !.chartType = chart_type]

\* a store that keeps the entry an identifier already has
Store_KeepFirst(d, file_id, buffer, now) ==
    IF HasKey(d, file_id) THEN d ELSE Put(d, Entry(file_id, buffer, now))

\* the registry after lines 146-151
Store(d, file_id, buffer, now) == Put(d, Entry(file_id, buffer, now))

\* lines 146-163: the entry, with a second reading of the clock, and the
\* response
GenStore(p) ==
    /\ th[p].pc = "gen_store"
    /\ GENERATED_FILES' = Store(GENERATED_FILES, th[p].file_id, th[p].buffer, clock)
    /\ th' = [th EXCEPT ![p] =
                Done(@, Generated(@.file_id, @.comp.chart_type))]
    /\ UNCHANGED <<clock, nreq>>

-----------------------------------------------------------------------------
(* GET /download-chart/<file_id> *)

\* the 404 of the router, for a URL the route does not match
NoRoute == Resp(404, "html", "Not Found")

\* routing and line 172: "if file_id not in GENERATED_FILES"
DlCheck(p, url) ==
    /\ th[p].pc = "idle"
    /\ LET r == Route(url)
           t == [IdleThread EXCEPT !.op = "download", !.url = url,
                                   !.file_id = r.file_id,
                                   !.before = GENERATED_FILES]
       IN  th' = [th EXCEPT ![p] =
                    IF ~r.matched THEN Done(t, NoRoute)
                    ELSE IF ~HasKey(GENERATED_FILES, r.file_id)
                    THEN Done(t, Resp(404, "json", "File not found"))
                    ELSE [t EXCEPT !.pc = "dl_lookup"]]
    /\ UNCHANGED <<clock, GENERATED_FILES, nreq>>

\* line 175: file_data = GENERATED_FILES[file_id]
DlLookup(p) ==
    /\ th[p].pc = "dl_lookup"
    /\ th' = [th EXCEPT ![p] =
                IF ~HasKey(GENERATED_FILES, @.file_id)
                THEN Done(@, Fault("KeyError"))
                ELSE [@ EXCEPT !.pc = "dl_send",
                               !.file_data = Lookup(GENERATED_FILES, th[p].file_id)]]
    /\ UNCHANGED <<clock, GENERATED_FILES, nreq>>

\* the response of send_file
Sent(file_data) ==
    [Resp(200, "file", "") EXCEPT !.mimetype = file_data.content_type,
                                  !.download_name = file_data.filename,
                                  !.body = file_data.buffer]

\* lines 176-183: the buffer is rewound and sent
DlSend(p) ==
    /\ th[p].pc = "dl_send"
    /\ th' = [th EXCEPT ![p] = Done(@, Sent(@.file_data))]
    /\ UNCHANGED <<clock, GENERATED_FILES, nreq>>

-----------------------------------------------------------------------------
(* GET /cleanup *)

\* lines 188-191: now, removed and the list of keys
ClStart(p) ==
    /\ th[p].pc = "idle"
    /\ th' = [th EXCEPT ![p] =
                [IdleThread EXCEPT !.pc = "cl_loop", !.op = "cleanup",
                                   !.now = clock, !.removed = 0,
                                   !.keys = Keys(GENERATED_FILES), !.i = 1,
                                   !.before = GENERATED_FILES]]
    /\ UNCHANGED <<clock, GENERATED_FILES, nreq>>

\* lines 192-196: the entry of the next listed key and the test of its age
ClLookup(p) ==
    /\ th[p].pc = "cl_loop"
    /\ th[p].i <= Len(th[p].keys)
    /\ th' = [th EXCEPT ![p] =
                LET file_id == @.keys[@.i]
                IN  IF ~HasKey(GENERATED_FILES, file_id)
                    THEN Done(@, Fault("KeyError"))
                    ELSE LET file_data == Lookup(GENERATED_FILES, file_id)
                         IN  IF TooOld(@.now, file_data.created)
                             THEN [@ EXCEPT !.pc = "cl_del", !.file_data = file_data]
                             ELSE [@ EXCEPT !.i = @ + 1, !.file_data = file_data]]
    /\ UNCHANGED <<clock, GENERATED_FILES, nreq>>

\* lines 197-198: del GENERATED_FILES[file_id]; removed += 1
ClDelete(p) ==
    /\ th[p].pc = "cl_del"
    /\ LET file_id == th[p].keys[th[p].i]
       IN  IF ~HasKey(GENERATED_FILES, file_id)
           THEN /\ th' = [th EXCEPT ![p] = Done(@, Fault("KeyError"))]
                /\ UNCHANGED GENERATED_FILES
           ELSE /\ GENERATED_FILES' = Delete(GENERATED_FILES, file_id)
                /\ th' = [th EXCEPT ![p] =
                            [@ EXCEPT !.pc = "cl_loop", !.i = @ + 1,
                                      !.removed = @ + 1]]
    /\ UNCHANGED <<clock, nreq>>

\* the response of lines 200-203
Swept(removed, remaining) ==
    [Resp(200, "json", "") EXCEPT !.removed = removed, !.remaining = remaining]

\* lines 200-203, once the loop is over
ClReturn(p) ==
    /\ th[p].pc = "cl_loop"
    /\ th[p].i > Len(th[p].keys)
    /\ th' = [th EXCEPT ![p] =
                Done(@, Swept(@.removed, Len(GENERATED_FILES)))]
    /\ UNCHANGED <<clock, GENERATED_FILES, nreq>>

-----------------------------------------------------------------------------
(* The server and the clock *)

\* the response has been sent and the worker is free again
Finish(p) ==
    /\ th[p].pc = "done"
    /\ th' = [th EXCEPT ![p] = IdleThread]
    /\ UNCHANGED <<clock, GENERATED_FILES, nreq>>

\* time passes: by a tick, or by the age limit
Tick(d) ==
    /\ clock + d \in ClockValues
    /\ clock' = clock + d
    /\ UNCHANGED <<GENERATED_FILES, nreq, th>>

TickSteps == {1, MaxAgeTicks}

-----------------------------------------------------------------------------
(* Specifications *)

\* the service as started: no file, every worker idle
Init ==
    /\ clock = 0
    /\ GENERATED_FILES = <<>>
    /\ nreq = 0
    /\ th = [p \in Threads |-> IdleThread]

Step(p, requests, urls) ==
    \/ Home(p)
    \/ \E req \in requests : GenBegin(p, req)
    \/ GenCompose(p)
    \/ GenId(p)
    \/ GenStore(p)
    \/ \E url \in urls : DlCheck(p, url)
    \/ DlLookup(p)
    \/ DlSend(p)
    \/ ClStart(p)
    \/ ClLookup(p)
    \/ ClDelete(p)
    \/ ClReturn(p)
    \/ Finish(p)

\* the threaded server: requests are served concurrently
Next ==
    \/ \E p \in Threads : Step(p, ConcurrentRequests, ConcurrentUrls)
    \/ \E d \in TickSteps : Tick(d)

Spec == Init /\ [][Next]_vars

\* one request at a time
NextSeq ==
    \/ Step(1, ServiceRequests, ServiceUrls)
    \/ \E d \in TickSteps : Tick(d)

SpecSeq == Init /\ [][NextSeq]_vars

\* one /generate-chart request, of any form, received by the service as
\* started
InitCompose ==
    /\ clock = 0
    /\ GENERATED_FILES = <<>>
    /\ nreq = 1
    /\ \E req \in ComposeRequests \cup CoerceRequests :
         th = [p \in Threads |->
                 IF p = 1 THEN Receiving(req, 1, <<>>) ELSE IdleThread]

NextCompose ==
    \/ GenCompose(1)
    \/ GenId(1)
    \/ GenStore(1)
    \/ \E d \in TickSteps : Tick(d)

SpecCompose == InitCompose /\ [][NextCompose]_vars

-----------------------------------------------------------------------------
(* Properties of the registry, one request at a time (SpecSeq) *)

Finished(p, op) == th[p].pc = "done" /\ th[p].op = op

Stored(file_id) ==
    \E i \in 1..Len(GENERATED_FILES) : GENERATED_FILES[i].id = file_id

\* C1: a download of an identifier that is not in the registry answers 404;
\* a download of the downloadUrl of a stored file (of any chart type) answers
\* 200 with the presentation content type, every time; and no download
\* changes the registry.
C1_DownloadContract ==
    \A p \in Threads :
        Finished(p, "download") =>
            /\ GENERATED_FILES = th[p].before
            /\ IF \E i \in 1..Len(GENERATED_FILES) :
                     th[p].url = DownloadUrl(GENERATED_FILES[i].id)
               THEN /\ th[p].resp.status = 200
                    /\ th[p].resp.mimetype = PptxContentType
               ELSE th[p].resp.status = 404

\* the age of an artifact exceeds 3600 seconds
C2_Expired(now, created) == now - created > MaxAgeSeconds * TicksPerSecond

\* C2: when /cleanup has answered, every artifact that was older than 3600
\* seconds at the sweep is gone (and a download of a missing identifier
\* answers 404), every other artifact is still there, unchanged, `removed`
\* counts the deleted entries and `remaining` is the size of the registry.
C2_CleanupContract ==
    /\ \A p \in Threads :
         Finished(p, "cleanup") /\ th[p].resp.status = 200 =>
            LET b == th[p].before
                expired == {i \in 1..Len(b) : C2_Expired(th[p].now, b[i].created)}
            IN  /\ \A i \in 1..Len(b) :
                      IF i \in expired
                      THEN ~Stored(b[i].id)
                      ELSE \E j \in 1..Len(GENERATED_FILES) : GENERATED_FILES[j] = b[i]
                /\ th[p].resp.removed = Cardinality(expired)
                /\ Len(b) - Len(GENERATED_FILES) = Cardinality(expired)
                /\ th[p].resp.remaining = Len(GENERATED_FILES)
    /\ \A p \in Threads :
         Finished(p, "download") /\ ~Stored(th[p].file_id) => th[p].resp.status = 404

\* a sweep that removed one artifact and kept another
C2_Witness ==
    \E p \in Threads :
        /\ Finished(p, "cleanup")
        /\ th[p].resp.removed >= 1
        /\ th[p].resp.remaining >= 1

\* C4: a /generate-chart that answers 400 or 500 leaves the registry as it
\* was when the request arrived; one that answers 200 has set exactly one
\* entry, under the identifier of its downloadUrl, holding the buffer with the
\* whole saved document, and has left every other entry alone.
C4_GenerateAllOrNothing ==
    \A p \in Threads :
        Finished(p, "generate") =>
            LET b == th[p].before
                r == th[p].resp
            IN  IF r.status = 200
                THEN \E k \in 1..Len(GENERATED_FILES) :
                       LET e == GENERATED_FILES[k]
                       IN  /\ r.downloadUrl = UrlPrefix \o e.id
                           /\ e.buffer = th[p].buffer
                           /\ th[p].comp.stage = "saved"
                           /\ e.buffer.data = th[p].comp.slides
                           /\ \A j \in 1..Len(GENERATED_FILES) :
                                j # k => GENERATED_FILES[j].id # e.id
                           /\ {GENERATED_FILES[j] : j \in 1..Len(GENERATED_FILES) \ {k}}
                                = {b[i] : i \in {x \in 1..Len(b) : b[x].id # e.id}}
                ELSE /\ r.status \in {400, 500}
                     /\ r.kind = "json"
                     /\ GENERATED_FILES = b

\* a 200 that replaced the entry of an earlier request of the same second
C4_Witness ==
    \E p \in Threads :
        /\ Finished(p, "generate")
        /\ th[p].resp.status = 200
        /\ \E i \in 1..Len(th[p].before) : th[p].before[i].id = th[p].file_id

-----------------------------------------------------------------------------
(* Properties of one /generate-chart request, of any form (SpecCompose) *)

\* the handler of thread p has gone through lines 40-139
Handled(p) == th[p].op = "generate" /\ th[p].comp.stage # ""

\* every chart of a document
Charts(slides) ==
    UNION {{slides[i].charts[j] : j \in 1..Len(slides[i].charts)} : i \in 1..Len(slides)}

SupportedName(name) ==
    EndsWith(name, Ext_csv) \/ EndsWith(name, Ext_xlsx) \/ EndsWith(name, Ext_xls)

\* C3: a data file with a supported extension that loads as a table of fewer
\* than two columns is answered 400 "Data must have at least two columns",
\* whatever the templateFile and the slidePosition, never 500.
C3_OneColumnIs400 ==
    \A p \in Threads :
        /\ Handled(p)
        /\ th[p].req.dataFile.present
        /\ SupportedName(th[p].req.dataFile.filename)
        /\ th[p].req.dataFile.readable
        /\ th[p].req.dataFile.table.ncols < 2
        => /\ th[p].comp.status = 400
           /\ th[p].comp.error =
                "Data must have at least two columns (categories and values)"

\* C5: a request with slidePosition 0 or negative inserts no chart into any
\* slide and registers no artifact, with or without a template.
C5_NonPositivePositionRejected ==
    \A p \in Threads :
        /\ Handled(p)
        /\ th[p].req.slidePosition.present
        /\ PyIntParses(th[p].req.slidePosition.value)
        /\ PyInt(th[p].req.slidePosition.value) < 1
        => /\ Charts(th[p].comp.slides) = {}
           /\ th[p].comp.status # 200
           /\ GENERATED_FILES = <<>>

\* the base document of a request
C6_Base(req) == IF TemplateGiven(req) THEN req.templateFile.slides ELSE <<>>

C6_Layouts(req) == IF TemplateGiven(req) THEN req.templateFile.layouts ELSE DefaultLayouts

C6_Max(a, b) == IF a >= b THEN a ELSE b

\* the document of thread p is its base document, in order, followed by
\* max(0, P - S) appended slides, with the one chart (if saved) in slide P
C6_Padded(p) ==
    LET base == C6_Base(th[p].req)
        S == Len(base)
        P == th[p].comp.slide_position
        d == th[p].comp.slides
    IN  /\ Len(d) = C6_Max(S, P)
        /\ \A i \in 1..Len(d) :
             /\ i <= S => d[i].origin = base[i].origin /\ d[i].layout = base[i].layout
             /\ i > S => d[i].origin = 0
             /\ Len(d[i].charts) =
                  IF th[p].comp.stage = "saved" /\ i = P THEN 1 ELSE 0

\* C6, as claimed: for every position P >= 1 and every base document the
\* padding loop ends having appended exactly max(0, P - S) slides, and the
\* chart goes into slide index P - 1 only.
C6_PaddingAsClaimed ==
    \A p \in Threads :
        /\ Handled(p)
        /\ th[p].comp.stage \in {"pad", "index", "columns", "chart", "saved"}
        /\ th[p].comp.slide_position >= 1
        => C6_Padded(p)

\* C6, amended: the same whenever the scan finds a layout that exists; when
\* the document is short of slides, no layout name matches and the document
\* has no layout 5, the loop ends in its first pass with an IndexError, no
\* slide is appended and the request fails with 500.
C6_PaddingAmended ==
    \A p \in Threads :
        /\ Handled(p)
        /\ th[p].comp.stage \in {"pad", "index", "columns", "chart", "saved"}
        /\ th[p].comp.slide_position >= 1
        => LET base == C6_Base(th[p].req)
               layouts == C6_Layouts(th[p].req)
               noLayout ==
                   /\ Len(base) < th[p].comp.slide_position
                   /\ \A i \in 1..Len(layouts) : ~LayoutMatches(layouts[i])
                   /\ Len(layouts) <= DefaultLayoutIdx
           IN  IF noLayout
               THEN /\ th[p].comp.stage = "pad"
                    /\ th[p].comp.status = 500
                    /\ th[p].comp.slides = base
               ELSE /\ th[p].comp.stage # "pad"
                    /\ C6_Padded(p)

\* a template of two slides padded to three, the chart in the third
C6_Witness ==
    \E p \in Threads :
        /\ Handled(p)
        /\ th[p].comp.stage = "saved"
        /\ th[p].comp.slide_position = 3
        /\ Len(C6_Base(th[p].req)) = 2
        /\ Len(th[p].comp.slides) = 3
        /\ Len(th[p].comp.slides[3].charts) = 1

\* the value the claim gives a cell
C7_Claimed(cell) ==
    IF cell.kind = "str" /\ HasChar(cell.text, "%")
    THEN LET f == PyFloatOfText(Strip(cell.text, "%"))
         IN  IF f = Raises THEN Zero ELSE f
    ELSE IF cell.kind = "str"
    THEN LET f == PyFloatOfText(cell.text)
         IN  IF f = Raises THEN Zero ELSE f
    ELSE IF cell.kind = "num" /\ cell.num.tag = "float" THEN cell.num
    ELSE Zero

\* C7: every extracted value is a number: the parse of a percent text
\* without its sign (zero when that fails), else the numeric coercion of the
\* cell (zero for non-numeric text and for a null cell); and no value cell
\* makes the request fail.
C7_ValuesAsClaimed ==
    \A p \in Threads :
        Handled(p) =>
            /\ th[p].req \in CoerceRequests => th[p].comp.status = 200
            /\ \A c \in Charts(th[p].comp.slides) :
                 LET col1 == th[p].req.dataFile.table.col1
                 IN  /\ Len(c.values) = Len(col1)
                     /\ \A k \in 1..Len(col1) :
                          /\ c.values[k].tag = "float"
                          /\ c.values[k] = C7_Claimed(col1[k])

\* the chart category the claim gives a chartType
C8_Category(chart_type) ==
    IF chart_type = T_pie THEN "PIE"
    ELSE IF chart_type = T_line THEN "LINE"
    ELSE IF chart_type = T_scatter THEN "XY_SCATTER"
    ELSE IF chart_type = T_area THEN "AREA"
    ELSE "COLUMN_CLUSTERED"

C8_Recognised == {T_pie, T_bar, T_line, T_scatter, T_area}

\* C8: the inserted chart has the category mapped for its chartType, and
\* clustered column for any other string; percentage data labels are on
\* exactly for "pie"; and a request with an unrecognised chartType is answered
\* as the same request with "bar" is (it causes no error of its own).
C8_ChartKind ==
    \A p \in Threads :
        Handled(p) =>
            /\ \A c \in Charts(th[p].comp.slides) :
                 /\ c.chart_type = C8_Category(th[p].comp.chart_type)
                 /\ c.has_data_labels <=> th[p].comp.chart_type = T_pie
                 /\ c.has_data_labels => c.number_format = "0.0\"%\""
            /\ th[p].comp.chart_type \notin C8_Recognised /\ th[p].comp.stage # "files" =>
                 LET asBar == Compose([th[p].req EXCEPT !.chartType = Field(T_bar)], TRUE)
                 IN  /\ th[p].comp.status = asBar.status
                     /\ th[p].comp.error = asBar.error

\* a chart of an unrecognised type, inserted as clustered column
C8_Witness ==
    \E p \in Threads :
        /\ Handled(p)
        /\ th[p].comp.chart_type = T_foo
        /\ th[p].comp.status = 200
        /\ \E c \in Charts(th[p].comp.slides) : c.chart_type = "COLUMN_CLUSTERED"

-----------------------------------------------------------------------------
(* Properties of concurrent requests (Spec) *)

\* C9: under every interleaving each handler ends with one of its documented
\* responses (download 200 or 404, cleanup 200, generate 200, 400 or 500 with
\* a JSON body) and none ends in an uncaught fault.
C9_DocumentedResponses ==
    \A p \in Threads :
        th[p].pc = "done" =>
            /\ th[p].resp.kind # "fault"
            /\ th[p].op = "download" => th[p].resp.status \in {200, 404}
            /\ th[p].op = "cleanup" => th[p].resp.status = 200
            /\ th[p].op = "generate" =>
                 th[p].resp.status \in {200, 400, 500} /\ th[p].resp.kind = "json"

\* thread p has made the identifier of its artifact
Named(p) ==
    th[p].op = "generate" /\ th[p].pc \in {"gen_store", "done"}
        /\ th[p].comp.status = 200

\* two requests have the same identifier exactly when they read the same
\* clock second and have the same chartType; a 200 carries the URL of the
\* identifier; the registry has one entry for an identifier
C10_Identifiers ==
    /\ \A p, q \in Threads :
         Named(p) /\ Named(q) =>
            (th[p].file_id = th[q].file_id
                <=> /\ th[p].now \div TicksPerSecond = th[q].now \div TicksPerSecond
                    /\ th[p].comp.chart_type = th[q].comp.chart_type)
    /\ \A p \in Threads :
         Finished(p, "generate") /\ th[p].resp.status = 200 =>
            th[p].resp.downloadUrl = UrlPrefix \o th[p].file_id
    /\ \A i, j \in 1..Len(GENERATED_FILES) :
         GENERATED_FILES[i].id = GENERATED_FILES[j].id => i = j

\* the write of a request puts its own artifact under its identifier, in
\* place of any earlier one, answers 200, and leaves other identifiers alone
C10_Write ==
    \A p \in Threads :
        th[p].pc = "gen_store" /\ th'[p].pc = "done" =>
            /\ th'[p].resp.status = 200
            /\ \E k \in 1..Len(GENERATED_FILES') :
                 /\ GENERATED_FILES'[k].id = th[p].file_id
                 /\ GENERATED_FILES'[k].buffer = th[p].buffer
            /\ \A k \in 1..Len(GENERATED_FILES') :
                 GENERATED_FILES'[k].id = th[p].file_id =>
                    GENERATED_FILES'[k].buffer.obj = th[p].buffer.obj
            /\ {GENERATED_FILES'[k] : k \in {x \in 1..Len(GENERATED_FILES') :
                                               GENERATED_FILES'[x].id # th[p].file_id}}
                 = {GENERATED_FILES[k] : k \in {x \in 1..Len(GENERATED_FILES) :
                                                  GENERATED_FILES[x].id # th[p].file_id}}

=============================================================================
